---- MODULE Spec2Model ----
(***************************************************************************)
(* Model of github_context.py: the run coordinator (main), the tree walker *)
(* (extract_repo_content), the flat aggregation rounds (extract_issues,    *)
(* extract_wiki), the README job and the per-item extractors.              *)
(*                                                                         *)
(* A text (a Python str built with +=) is a sequence of blocks; the empty  *)
(* string is the empty sequence.  A path is a sequence of tokens, so that  *)
(* "pattern in path" is the contiguous-subsequence test.                   *)
(***************************************************************************)
EXTENDS Integers, Sequences, FiniteSets, TLC

\* ------------------------------------------------------------------ bounds
NumIssues == 2
NumPages == 2
MaxWorkers == 2
MaxRuns == 2
MaxPathLen == 3
MaxRuleLen == 2
MaxRules == 2

\* ------------------------------------------------------- program constants
OuterMaxWorkers == 3
SampleSize == 1024

\* ------------------------------------------------------------ the remote
Issues == 1..NumIssues
Pages == 1..NumPages

D_root == <<>>
D_A == <<"A">>
D_B == <<"B">>
D_S == <<"A", "/", "S">>
F_x == <<"x">>
F_y == <<"y">>
F_a == <<"A", "/", "a">>
F_b == <<"B", "/", "b">>
F_s == <<"A", "/", "S", "/", "s">>
F_t == <<"A", "/", "t">>
F_gi == <<".gitignore">>

Dir(p) == [path |-> p, type |-> "dir"]
File(p) == [path |-> p, type |-> "file"]

AllDirs == {D_root, D_A, D_B, D_S}
AllFiles == {F_x, F_y, F_a, F_b, F_s, F_t, F_gi}

\* The listing repo.get_contents(path) returns, per tree shape.
Listing(tree, p) ==
    IF tree = "small"
    THEN CASE p = D_root -> <<Dir(D_A), File(F_x)>>
           [] p = D_A -> <<File(F_a)>>
           [] OTHER -> <<>>
    ELSE IF tree = "dot"
    THEN CASE p = D_root -> <<File(F_gi), Dir(D_A), File(F_x), File(F_y)>>
           [] p = D_A -> <<File(F_a), File(F_t)>>
           [] OTHER -> <<>>
    ELSE CASE p = D_root -> <<Dir(D_A), File(F_x), Dir(D_B), File(F_y)>>
           [] p = D_A -> <<File(F_a), Dir(D_S)>>
           [] p = D_S -> <<File(F_s)>>
           [] p = D_B -> <<File(F_b)>>
           [] OTHER -> <<>>

\* Bytes of a file after base64 decoding: 0 is NUL, values >= 128 stand for
\* bytes that are not valid UTF-8, the others are ASCII.  A file the remote
\* marks binary has a NUL in its first bytes; one it marks undecodable is
\* valid for its first SampleSize bytes and invalid after them.
RawContent(rem, p) ==
    IF p \in rem.binary THEN <<104, 0>>
    ELSE IF p \in rem.undecodable
         THEN [i \in 1..(SampleSize + 1) |-> IF i > SampleSize THEN 255 ELSE 104]
         ELSE <<104, Len(p)>>

\* Lines of the .gitignore resource at the root.
GitignoreLines == << <<"#", "S">>, <<>>, <<"zz">>, <<"t">> >>

VARIABLES
    args,            \* the parsed command line flags
    remote,          \* the remote repository: tree shape and the items that fail
    mpc,             \* position of main
    all_content,     \* main's all_content
    ignore_patterns, \* main's ignore_patterns
    futures,         \* main's futures list (jobs in submission order)
    jpc,             \* state of each top-level job's future
    jres,            \* value returned by each finished job
    merged,          \* jobs in the order as_completed has yielded them to main
    stack,           \* extract_repo_content call stack (one frame per directory)
    fst,             \* state of each file worker's future
    ist,             \* state of each issue worker's future
    iacc,            \* extract_issues' all_content
    wst,             \* state of each wiki page worker's future
    wacc,            \* extract_wiki's all_content
    log,             \* diagnostics printed so far
    exit_code,       \* process exit status (-1 while running)
    output,          \* what was handed to the output sink
    history,         \* documents emitted by earlier runs with the same flags and remote
    probe            \* one call of should_ignore on its own: arguments and result

vars == <<args, remote, mpc, all_content, ignore_patterns, futures, jpc, jres,
          merged, stack, fst, ist, iacc, wst, wacc, log, exit_code, output, history,
          probe>>

envVars == <<args, remote, history, probe>>

mainVars == <<mpc, all_content, ignore_patterns, futures, merged, exit_code, output>>
codeVars == <<stack, fst>>
issueVars == <<ist, iacc>>
wikiVars == <<wst, wacc>>

Jobs == {"code", "issues", "wiki", "readme"}

\* ------------------------------------------------------- pure functions
Min(a, b) == IF a < b THEN a ELSE b

\* The pattern looked for at the start of the path only.
IsSubstring_Prefix(pat, path) ==
    Len(pat) <= Len(path) /\ \A k \in 1..Len(pat) : path[k] = pat[k]

\* Python's "pattern in path".
IsSubstring(pat, path) ==
    \E i \in 0..(Len(path) - Len(pat)) :
        \A k \in 1..Len(pat) : path[i + k] = pat[k]

GitignoreName == <<".gitignore">>

add_content(header, content) == << [header |-> header, content |-> content] >>

\* The name test left out.
should_ignore_PatternsOnly(path, patterns) ==
    \E k \in 1..Len(patterns) : IsSubstring(patterns[k], path)

should_ignore(path, patterns) ==
    (\E k \in 1..Len(patterns) : IsSubstring(patterns[k], path))
        \/ path = GitignoreName

Utf8Valid(bytes) == \A i \in 1..Len(bytes) : bytes[i] < 128

is_binary(content, sample_size) ==
    LET sample == SubSeq(content, 1, Min(sample_size, Len(content)))
    IN  IF \E i \in 1..Len(sample) : sample[i] = 0
        THEN TRUE
        ELSE ~Utf8Valid(sample)

extract_file_content_Unchecked(rem, path, patterns) ==
    IF ~should_ignore(path, patterns)
    THEN [value |-> add_content(<<"File: ", path>>, <<104>>), diag |-> {}]
    ELSE [value |-> <<>>, diag |-> {}]

\* The value a file worker returns (<<>> is None) and what it prints.
extract_file_content(rem, path, patterns) ==
    IF ~should_ignore(path, patterns)
    THEN IF path \in rem.badFiles
         THEN [value |-> <<>>, diag |-> {<<"Error extracting", path>>}]
         ELSE LET file_content == RawContent(rem, path)
              IN  IF ~is_binary(file_content, SampleSize)
                  THEN IF Utf8Valid(file_content)
                       THEN [value |-> add_content(<<"File: ", path>>, file_content),
                             diag |-> {}]
                       ELSE [value |-> <<>>, diag |-> {<<"Error extracting", path>>}]
                  ELSE [value |-> <<>>, diag |-> {<<"Skipping binary file", path>>}]
    ELSE [value |-> <<>>, diag |-> {}]

\* Comments of an issue, in the remote's order.
IssueComments(i) == [k \in 1..(i - 1) |-> 200 + k]

\* An issue worker either raises (raised = TRUE) or returns one block.
extract_single_issue(rem, i) ==
    IF i \in rem.badIssues
    THEN [raised |-> TRUE, value |-> <<>>]
    ELSE [raised |-> FALSE,
          value |-> add_content(<<"Issue: #", i>>, <<i>> \o IssueComments(i))]

\* A page worker returns one block or raises; attr tells whether what it
\* raises is an AttributeError.
extract_single_wiki_page(rem, p) ==
    IF p \in rem.badPages \cup rem.attrPages
    THEN [raised |-> TRUE, attr |-> p \in rem.attrPages, value |-> <<>>]
    ELSE [raised |-> FALSE, attr |-> FALSE,
          value |-> add_content(<<"Wiki Page: ", p>>, <<p>>)]

extract_readme(rem) ==
    IF rem.readme
    THEN [value |-> add_content(<<"README">>, <<114>>), diag |-> {}]
    ELSE [value |-> <<>>, diag |-> {<<"Error extracting README">>}]

\* main lines 212-223: the patterns read from .gitignore, [] when it is absent.
RECURSIVE ParseGitignore(_)
ParseGitignore(lines) ==
    IF lines = <<>> THEN <<>>
    ELSE LET line == Head(lines)
             rest == ParseGitignore(Tail(lines))
         IN  IF line # <<>> /\ line[1] # "#" THEN <<line>> \o rest ELSE rest

\* extract_file_tree: one line per entry, depth first.
RECURSIVE extract_file_tree(_, _, _)
extract_file_tree(tree, path, prefix) ==
    LET contents == Listing(tree, path)
        Line(k) ==
            IF contents[k].type = "dir"
            THEN <<[prefix |-> prefix, name |-> contents[k].path, dir |-> TRUE]>>
                     \o extract_file_tree(tree, contents[k].path, prefix + 1)
            ELSE <<[prefix |-> prefix, name |-> contents[k].path, dir |-> FALSE]>>
        Lines[k \in 0..Len(contents)] ==
            IF k = 0 THEN <<>> ELSE Lines[k - 1] \o Line(k)
    IN  Lines[Len(contents)]

Title == [header |-> <<"Content of">>, content |-> <<>>]

\* ------------------------------------------------------------ the flags
Flags == [readme_only : BOOLEAN, code_only : BOOLEAN, issues_only : BOOLEAN,
          wiki_only : BOOLEAN, no_issues : BOOLEAN, no_wiki : BOOLEAN]

NoFlags == [readme_only |-> FALSE, code_only |-> FALSE, issues_only |-> FALSE,
            wiki_only |-> FALSE, no_issues |-> FALSE, no_wiki |-> FALSE]

\* main lines 228-242: which jobs are submitted.
DispatchReadme(a) == a.readme_only

DispatchCode(a) ==
    ~a.readme_only /\ (a.code_only \/ (~a.issues_only /\ ~a.wiki_only))

DispatchIssues_NoCodeOnly(a) ==
    ~a.readme_only /\ (~a.no_issues /\ ~a.wiki_only)

DispatchIssues(a) ==
    ~a.readme_only /\ (~a.no_issues /\ ~a.wiki_only /\ ~a.code_only)

DispatchWiki(a) ==
    ~a.readme_only /\ (~a.no_wiki /\ ~a.issues_only /\ ~a.code_only)

Submitted(a) ==
    (IF DispatchReadme(a) THEN <<"readme">> ELSE <<>>)
        \o (IF DispatchCode(a) THEN <<"code">> ELSE <<>>)
        \o (IF DispatchIssues(a) THEN <<"issues">> ELSE <<>>)
        \o (IF DispatchWiki(a) THEN <<"wiki">> ELSE <<>>)

\* main lines 255-257: whether the file tree is rendered.
RenderTree(a) ==
    a.code_only \/ (~a.issues_only /\ ~a.wiki_only /\ ~a.readme_only)

Range(seq) == {seq[k] : k \in 1..Len(seq)}

\* ------------------------------------------------------------ remotes
BaseRemote ==
    [tree |-> "small", badFiles |-> {}, badDirs |-> {}, binary |-> {},
     undecodable |-> {}, badIssues |-> {}, badPages |-> {}, attrPages |-> {},
     issuesList |-> TRUE,
     wiki |-> "present", readme |-> TRUE, gitignore |-> TRUE]

FilesIn(tree, d) ==
    {Listing(tree, d)[k].path :
        k \in {n \in 1..Len(Listing(tree, d)) : Listing(tree, d)[n].type = "file"}}

TreeDirs(tree) == IF tree \in {"small", "dot"} THEN {D_root, D_A} ELSE AllDirs
TreeFiles(tree) == UNION {FilesIn(tree, d) : d \in TreeDirs(tree)}

\* The directory whose listing holds file f: its workers share one pool.
DirOf(tree, f) == CHOOSE d \in TreeDirs(tree) : f \in FilesIn(tree, d)

\* ------------------------------------------------------------ initial state
NoProbe == [path |-> <<>>, rules |-> <<>>, applied |-> FALSE, result |-> FALSE]

\* The state of a run before main's first statement.
Fresh ==
    /\ mpc = "token"
    /\ all_content = <<>>
    /\ ignore_patterns = <<>>
    /\ futures = <<>>
    /\ jpc = [j \in Jobs |-> "none"]
    /\ jres = [j \in Jobs |-> <<>>]
    /\ merged = <<>>
    /\ stack = <<>>
    /\ fst = [f \in AllFiles |-> "none"]
    /\ ist = [i \in Issues |-> "none"]
    /\ iacc = <<>>
    /\ wst = [p \in Pages |-> "none"]
    /\ wacc = <<>>
    /\ log = {}
    /\ exit_code = -1
    /\ output = <<>>
    /\ history = <<>>

InitWith(A, R) ==
    /\ args \in A
    /\ remote \in R
    /\ probe = NoProbe
    /\ Fresh

\* ------------------------------------------------------------------ main
\* The message printed without sys.exit(1): main goes on.
CheckToken_NoExit ==
    /\ mpc = "token"
    /\ \E present \in BOOLEAN :
        /\ mpc' = "repo"
        /\ log' = IF present THEN log
                  ELSE log \cup {<<"Please set the GITHUB_TOKEN environment variable">>}
        /\ UNCHANGED exit_code
    /\ UNCHANGED <<envVars, all_content, ignore_patterns, futures, jpc, jres,
                   merged, output, codeVars, issueVars, wikiVars>>

\* lines 198-201
CheckToken ==
    /\ mpc = "token"
    /\ \E present \in BOOLEAN :
        IF present
        THEN /\ mpc' = "repo"
             /\ UNCHANGED <<log, exit_code>>
        ELSE /\ mpc' = "fatal"
             /\ log' = log \cup {<<"Please set the GITHUB_TOKEN environment variable">>}
             /\ exit_code' = 1
    /\ UNCHANGED <<envVars, all_content, ignore_patterns, futures, jpc, jres,
                   merged, output, codeVars, issueVars, wikiVars>>

\* lines 203-209: an unresolvable repository raises outside the try block.
GetRepo ==
    /\ mpc = "repo"
    /\ \E resolved \in BOOLEAN :
        IF resolved
        THEN /\ mpc' = "gitignore"
             /\ all_content' = <<Title>>
             /\ UNCHANGED exit_code
        ELSE /\ mpc' = "fatal"
             /\ exit_code' = 1
             /\ UNCHANGED all_content
    /\ UNCHANGED <<envVars, ignore_patterns, futures, jpc, jres, merged, log,
                   output, codeVars, issueVars, wikiVars>>

\* lines 212-223
LoadIgnore ==
    /\ mpc = "gitignore"
    /\ ignore_patterns' =
           IF remote.gitignore THEN ParseGitignore(GitignoreLines) ELSE <<>>
    /\ mpc' = "dispatch"
    /\ UNCHANGED <<envVars, all_content, futures, jpc, jres, merged, log,
                   exit_code, output, codeVars, issueVars, wikiVars>>

\* lines 225-242
Dispatch ==
    /\ mpc = "dispatch"
    /\ futures' = Submitted(args)
    /\ jpc' = [j \in Jobs |-> IF j \in Range(Submitted(args)) THEN "pending" ELSE "none"]
    /\ mpc' = "merge"
    /\ UNCHANGED <<envVars, all_content, ignore_patterns, jres, merged, log,
                   exit_code, output, codeVars, issueVars, wikiVars>>

Finished(j) == jpc[j] \in {"done", "raised"}

MergeText_Prepend(doc, result) == result \o doc

MergeText_Assign(doc, result) == result

\* lines 244-253: as_completed hands main a finished future it has not seen.
MergeText(doc, result) == doc \o result

\* main with no try around future.result(): the job's exception reaches the
\* outer handler.
Merge_Uncaught(j) ==
    /\ mpc = "merge"
    /\ j \in Range(futures)
    /\ j \notin Range(merged)
    /\ Finished(j)
    /\ merged' = Append(merged, j)
    /\ IF jpc[j] = "done"
       THEN /\ all_content' = MergeText(all_content, jres[j])
            /\ UNCHANGED <<log, mpc, exit_code>>
       ELSE /\ log' = log \cup {<<"An error occurred">>}
            /\ mpc' = "fatal"
            /\ exit_code' = 1
            /\ UNCHANGED all_content
    /\ UNCHANGED <<envVars, ignore_patterns, futures, jpc, jres,
                   output, codeVars, issueVars, wikiVars>>

Merge(j) ==
    /\ mpc = "merge"
    /\ j \in Range(futures)
    /\ j \notin Range(merged)
    /\ Finished(j)
    /\ merged' = Append(merged, j)
    /\ IF jpc[j] = "done"
       THEN /\ all_content' = MergeText(all_content, jres[j])
            /\ UNCHANGED log
       ELSE /\ log' = log \cup {<<"Error during extraction">>}
            /\ UNCHANGED all_content
    /\ UNCHANGED <<envVars, mpc, ignore_patterns, futures, jpc, jres,
                   exit_code, output, codeVars, issueVars, wikiVars>>

AllMerged_Never == TRUE

\* The loop over as_completed has yielded every submitted future.
AllMerged == Range(merged) = Range(futures)

TreeBlock(tree) == add_content(<<"File Structure">>, extract_file_tree(tree, D_root, 0))

\* lines 255-259: after the outer pool is closed.
FileTree ==
    /\ mpc = "merge"
    /\ AllMerged
    /\ IF RenderTree(args)
       THEN \E listed \in BOOLEAN :
               IF listed
               THEN /\ all_content' = all_content \o TreeBlock(remote.tree)
                    /\ mpc' = "output"
                    /\ UNCHANGED <<log, exit_code>>
               ELSE /\ log' = log \cup {<<"An error occurred">>}
                    /\ exit_code' = 1
                    /\ mpc' = "fatal"
                    /\ UNCHANGED all_content
       ELSE /\ mpc' = "output"
            /\ UNCHANGED <<all_content, log, exit_code>>
    /\ UNCHANGED <<envVars, ignore_patterns, futures, jpc, jres, merged,
                   output, codeVars, issueVars, wikiVars>>

\* The sink receives the text even when the write fails.
Output_EmitOnFailure ==
    /\ mpc = "output"
    /\ \E written \in BOOLEAN :
        /\ output' = Append(output, all_content)
        /\ IF written
           THEN exit_code' = 0 /\ mpc' = "done" /\ UNCHANGED log
           ELSE /\ log' = log \cup {<<"An error occurred">>}
                /\ exit_code' = 1
                /\ mpc' = "fatal"
    /\ UNCHANGED <<envVars, all_content, ignore_patterns, futures, jpc, jres,
                   merged, codeVars, issueVars, wikiVars>>

\* lines 261-273
Output ==
    /\ mpc = "output"
    /\ \E written \in BOOLEAN :
        IF written
        THEN /\ output' = Append(output, all_content)
             /\ exit_code' = 0
             /\ mpc' = "done"
             /\ UNCHANGED log
        ELSE /\ log' = log \cup {<<"An error occurred">>}
             /\ exit_code' = 1
             /\ mpc' = "fatal"
             /\ UNCHANGED output
    /\ UNCHANGED <<envVars, all_content, ignore_patterns, futures, jpc, jres,
                   merged, codeVars, issueVars, wikiVars>>

\* --------------------------------------------------------- the outer pool
Active(j) == jpc[j] \in {"running", "unwinding"}

\* An outer pool none of whose threads ever takes a job.
OuterFree_Never == FALSE

\* ThreadPoolExecutor(max_workers=3): a pending job starts when a thread is free.
OuterFree == Cardinality({j \in Jobs : Active(j)}) < OuterMaxWorkers

SetJob(j, st) == jpc' = [jpc EXCEPT ![j] = st]

\* ------------------------------------------------------ extract_repo_content
NewFrame(d) == [path |-> d, idx |-> 1, all_content |-> <<>>]

Top == stack[Len(stack)]

\* Index of the next directory entry of a frame's listing, 0 when there is none.
NextDir(fr) ==
    LET contents == Listing(remote.tree, fr.path)
        later == {k \in fr.idx..Len(contents) : contents[k].type = "dir"}
    IN  IF later = {} THEN 0 ELSE CHOOSE k \in later : \A n \in later : k <= n

\* lines 60-67: every file of the listing is submitted to the level's pool.
SubmitFiles(d) ==
    [f \in AllFiles |-> IF f \in FilesIn(remote.tree, d) THEN "pending" ELSE fst[f]]

\* The pool closed without waiting for its workers.
LevelDone_NoWait(d) == TRUE

LevelDone(d) == \A f \in FilesIn(remote.tree, d) : fst[f] \in {"done", "collected"}

\* The code job starts: lines 57-67 for the root.
StartCode ==
    /\ jpc["code"] = "pending"
    /\ OuterFree
    /\ IF D_root \in remote.badDirs
       THEN /\ SetJob("code", "raised")
            /\ UNCHANGED codeVars
       ELSE /\ SetJob("code", "running")
            /\ stack' = <<NewFrame(D_root)>>
            /\ fst' = SubmitFiles(D_root)
    /\ UNCHANGED <<envVars, mainVars, jres, log, issueVars, wikiVars>>

\* lines 69-73 and, in the callee, 57-67.
Recurse ==
    /\ jpc["code"] = "running"
    /\ NextDir(Top) # 0
    /\ LET nd == NextDir(Top)
           d == Listing(remote.tree, Top.path)[nd].path
           caller == [stack EXCEPT ![Len(stack)].idx = nd + 1]
       IN  IF d \in remote.badDirs
           THEN /\ SetJob("code", "unwinding")
                /\ stack' = caller
                /\ UNCHANGED fst
           ELSE /\ stack' = Append(caller, NewFrame(d))
                /\ fst' = SubmitFiles(d)
                /\ UNCHANGED jpc
    /\ UNCHANGED <<envVars, mainVars, jres, log, issueVars, wikiVars>>

\* A pool that never counts its busy threads.
PoolBusy_Zero(d) == 0

PoolBusy(d) == Cardinality({f \in FilesIn(remote.tree, d) : fst[f] = "running"})

\* The pool's work queue is first in, first out: no file submitted before f
\* (earlier in the listing of its directory) is still waiting.
FirstWaitingFile(f) ==
    LET contents == Listing(remote.tree, DirOf(remote.tree, f))
        at == CHOOSE k \in 1..Len(contents) : contents[k].path = f
    IN  \A k \in 1..(at - 1) : contents[k].type = "file" => fst[contents[k].path] # "pending"

\* A thread of the level's pool takes the file's task.
FileStart(f) ==
    /\ fst[f] = "pending"
    /\ FirstWaitingFile(f)
    /\ PoolBusy(DirOf(remote.tree, f)) < MaxWorkers
    /\ fst' = [fst EXCEPT ![f] = "running"]
    /\ UNCHANGED <<envVars, mainVars, jpc, jres, log, stack, issueVars, wikiVars>>

\* lines 34-48 run to their end in the worker.
FileFinish(f) ==
    /\ fst[f] = "running"
    /\ fst' = [fst EXCEPT ![f] = "done"]
    /\ log' = log \cup extract_file_content(remote, f, ignore_patterns).diag
    /\ UNCHANGED <<envVars, mainVars, jpc, jres, stack, issueVars, wikiVars>>

\* The loop over as_completed starts once the loop over directories is over.
CanCollect(fr) == NextDir(fr) = 0

\* lines 75-82
CollectFile(f) ==
    /\ jpc["code"] = "running"
    /\ CanCollect(Top)
    /\ f \in FilesIn(remote.tree, Top.path)
    /\ fst[f] = "done"
    /\ LET content == extract_file_content(remote, f, ignore_patterns).value
       IN  stack' = [stack EXCEPT ![Len(stack)].all_content =
                        IF content # <<>> THEN @ \o content ELSE @]
    /\ fst' = [fst EXCEPT ![f] = "collected"]
    /\ UNCHANGED <<envVars, mainVars, jpc, jres, log, issueVars, wikiVars>>

AddSubdir_Prepend(acc, sub) == sub \o acc

\* line 71: all_content += the callee's return value.
AddSubdir(acc, sub) == acc \o sub

\* line 84, after the pool of the level is closed.
Return ==
    /\ jpc["code"] = "running"
    /\ NextDir(Top) = 0
    /\ \A f \in FilesIn(remote.tree, Top.path) : fst[f] = "collected"
    /\ IF Len(stack) = 1
       THEN /\ jres' = [jres EXCEPT !["code"] = Top.all_content]
            /\ SetJob("code", "done")
            /\ stack' = <<>>
       ELSE /\ stack' = [SubSeq(stack, 1, Len(stack) - 1) EXCEPT
                            ![Len(stack) - 1].all_content = AddSubdir(@, Top.all_content)]
            /\ UNCHANGED <<jpc, jres>>
    /\ UNCHANGED <<envVars, mainVars, log, fst, issueVars, wikiVars>>

\* An exception leaves one with-block: the pool's shutdown waits for its workers.
Unwind ==
    /\ jpc["code"] = "unwinding"
    /\ LevelDone(Top.path)
    /\ stack' = SubSeq(stack, 1, Len(stack) - 1)
    /\ SetJob("code", IF Len(stack) = 1 THEN "raised" ELSE "unwinding")
    /\ UNCHANGED <<envVars, mainVars, jres, log, fst, issueVars, wikiVars>>

\* ------------------------------------------------------------ extract_issues
\* lines 88-94
StartIssues ==
    /\ jpc["issues"] = "pending"
    /\ OuterFree
    /\ IF remote.issuesList
       THEN /\ SetJob("issues", "running")
            /\ ist' = [i \in Issues |-> "pending"]
       ELSE /\ SetJob("issues", "raised")
            /\ UNCHANGED ist
    /\ UNCHANGED <<envVars, mainVars, jres, log, codeVars, iacc, wikiVars>>

IssueStart(i) ==
    /\ ist[i] = "pending"
    /\ \A k \in 1..(i - 1) : ist[k] # "pending"
    /\ Cardinality({k \in Issues : ist[k] = "running"}) < MaxWorkers
    /\ ist' = [ist EXCEPT ![i] = "running"]
    /\ UNCHANGED <<envVars, mainVars, jpc, jres, log, codeVars, iacc, wikiVars>>

\* lines 106-110 run to their end (a return or an exception) in the worker.
IssueFinish(i) ==
    /\ ist[i] = "running"
    /\ ist' = [ist EXCEPT ![i] = "done"]
    /\ UNCHANGED <<envVars, mainVars, jpc, jres, log, codeVars, iacc, wikiVars>>

\* lines 96-101: future.result() re-raises the worker's exception.
CollectIssue(i) ==
    /\ jpc["issues"] = "running"
    /\ ist[i] = "done"
    /\ ist' = [ist EXCEPT ![i] = "collected"]
    /\ LET r == extract_single_issue(remote, i)
       IN  IF r.raised
           THEN /\ SetJob("issues", "unwinding")
                /\ UNCHANGED iacc
           ELSE /\ iacc' = iacc \o r.value
                /\ UNCHANGED jpc
    /\ UNCHANGED <<envVars, mainVars, jres, log, codeVars, wikiVars>>

\* line 103
IssuesReturn ==
    /\ jpc["issues"] = "running"
    /\ \A i \in Issues : ist[i] = "collected"
    /\ jres' = [jres EXCEPT !["issues"] = iacc]
    /\ SetJob("issues", "done")
    /\ UNCHANGED <<envVars, mainVars, log, codeVars, issueVars, wikiVars>>

\* The exception leaves the with-block once every worker has finished, and
\* then extract_issues itself.
IssuesUnwind ==
    /\ jpc["issues"] = "unwinding"
    /\ \A i \in Issues : ist[i] \in {"done", "collected"}
    /\ SetJob("issues", "raised")
    /\ UNCHANGED <<envVars, mainVars, jres, log, codeVars, issueVars, wikiVars>>

\* -------------------------------------------------------------- extract_wiki
\* lines 114-122, and 130-134 when there is no wiki or it cannot be read.
StartWiki ==
    /\ jpc["wiki"] = "pending"
    /\ OuterFree
    /\ IF remote.wiki = "present"
       THEN /\ SetJob("wiki", "running")
            /\ wst' = [p \in Pages |-> "pending"]
            /\ UNCHANGED <<jres, log>>
       ELSE /\ SetJob("wiki", "done")
            /\ jres' = [jres EXCEPT !["wiki"] = <<>>]
            /\ log' = IF remote.wiki = "absent" THEN log
                      ELSE log \cup {<<"Error extracting wiki">>}
            /\ UNCHANGED wst
    /\ UNCHANGED <<envVars, mainVars, codeVars, issueVars, wacc>>

PageStart(p) ==
    /\ wst[p] = "pending"
    /\ \A k \in 1..(p - 1) : wst[k] # "pending"
    /\ Cardinality({k \in Pages : wst[k] = "running"}) < MaxWorkers
    /\ wst' = [wst EXCEPT ![p] = "running"]
    /\ UNCHANGED <<envVars, mainVars, jpc, jres, log, codeVars, issueVars, wacc>>

\* lines 137-138 run to their end in the worker.
PageFinish(p) ==
    /\ wst[p] = "running"
    /\ wst' = [wst EXCEPT ![p] = "done"]
    /\ UNCHANGED <<envVars, mainVars, jpc, jres, log, codeVars, issueVars, wacc>>

\* lines 124-129
CollectPage(p) ==
    /\ jpc["wiki"] = "running"
    /\ wst[p] = "done"
    /\ wst' = [wst EXCEPT ![p] = "collected"]
    /\ LET r == extract_single_wiki_page(remote, p)
       IN  IF r.raised
           THEN /\ SetJob("wiki", "unwinding")
                /\ UNCHANGED wacc
           ELSE /\ wacc' = wacc \o r.value
                /\ UNCHANGED jpc
    /\ UNCHANGED <<envVars, mainVars, jres, log, codeVars, issueVars>>

\* line 134 after a loop that ran to its end.
WikiReturn ==
    /\ jpc["wiki"] = "running"
    /\ \A p \in Pages : wst[p] = "collected"
    /\ jres' = [jres EXCEPT !["wiki"] = wacc]
    /\ SetJob("wiki", "done")
    /\ UNCHANGED <<envVars, mainVars, log, codeVars, issueVars, wikiVars>>

\* The page whose exception future.result() re-raised: the loop stopped there.
RaisedPage ==
    CHOOSE p \in Pages :
        wst[p] = "collected" /\ extract_single_wiki_page(remote, p).raised

\* lines 130-134: the exception leaves the with-block once every worker has
\* finished, is caught (silently when it is an AttributeError), and what was
\* accumulated before it is returned.
WikiCatch ==
    /\ jpc["wiki"] = "unwinding"
    /\ \A p \in Pages : wst[p] \in {"done", "collected"}
    /\ jres' = [jres EXCEPT !["wiki"] = wacc]
    /\ log' = IF extract_single_wiki_page(remote, RaisedPage).attr THEN log
              ELSE log \cup {<<"Error extracting wiki">>}
    /\ SetJob("wiki", "done")
    /\ UNCHANGED <<envVars, mainVars, codeVars, issueVars, wikiVars>>

\* ------------------------------------------------------------ extract_readme
\* lines 141-148
RunReadme ==
    /\ jpc["readme"] = "pending"
    /\ OuterFree
    /\ jres' = [jres EXCEPT !["readme"] = extract_readme(remote).value]
    /\ log' = log \cup extract_readme(remote).diag
    /\ SetJob("readme", "done")
    /\ UNCHANGED <<envVars, mainVars, codeVars, issueVars, wikiVars>>

\* ------------------------------------------------------------ specifications
MainStep == CheckToken \/ GetRepo \/ LoadIgnore \/ Dispatch \/ (\E j \in Jobs : Merge(j))
                \/ FileTree \/ Output

CodeStep == StartCode \/ Recurse \/ (\E f \in AllFiles : FileStart(f))
                \/ (\E f \in AllFiles : FileFinish(f))
                \/ (\E f \in AllFiles : CollectFile(f)) \/ Return \/ Unwind

IssuesStep == StartIssues \/ (\E i \in Issues : IssueStart(i))
                  \/ (\E i \in Issues : IssueFinish(i))
                  \/ (\E i \in Issues : CollectIssue(i)) \/ IssuesReturn \/ IssuesUnwind

WikiStep == StartWiki \/ (\E p \in Pages : PageStart(p))
                \/ (\E p \in Pages : PageFinish(p))
                \/ (\E p \in Pages : CollectPage(p)) \/ WikiReturn \/ WikiCatch

Next == MainStep \/ CodeStep \/ IssuesStep \/ WikiStep \/ RunReadme

Remotes ==
    {BaseRemote,
     [BaseRemote EXCEPT !.badIssues = {1}],
     [BaseRemote EXCEPT !.badPages = {1}],
     [BaseRemote EXCEPT !.badDirs = {D_A}],
     [BaseRemote EXCEPT !.readme = FALSE, !.gitignore = FALSE, !.badFiles = {F_x},
                        !.badIssues = {2}, !.badPages = {2}],
     [BaseRemote EXCEPT !.wiki = "absent", !.issuesList = FALSE],
     [BaseRemote EXCEPT !.wiki = "error", !.undecodable = {F_a}],
     [BaseRemote EXCEPT !.attrPages = {1}]}

Init == InitWith(Flags, Remotes)

Spec == Init /\ [][Next]_vars

\* The tree walk alone, on the larger tree.
BigRemote == [BaseRemote EXCEPT !.tree = "big"]

\* A tree that holds its own .gitignore and a file one of its rules names.
DotRemote == [BaseRemote EXCEPT !.tree = "dot"]

WalkRemotes ==
    {BigRemote,
     [BigRemote EXCEPT !.badFiles = {F_x}],
     [BigRemote EXCEPT !.undecodable = {F_y}],
     [BigRemote EXCEPT !.badFiles = {F_s}],
     [BigRemote EXCEPT !.binary = {F_b}, !.badFiles = {F_a}],
     [BigRemote EXCEPT !.badDirs = {D_S}],
     [BigRemote EXCEPT !.gitignore = FALSE, !.badDirs = {D_B}],
     DotRemote,
     [DotRemote EXCEPT !.binary = {F_x}, !.undecodable = {F_a}],
     [DotRemote EXCEPT !.binary = {F_gi}, !.badFiles = {F_t, F_y}]}

WalkFlags == {[NoFlags EXCEPT !.code_only = TRUE],
              [NoFlags EXCEPT !.no_issues = TRUE, !.no_wiki = TRUE]}

NextWalk == MainStep \/ CodeStep

InitWalk == InitWith(WalkFlags, WalkRemotes)

SpecWalk == InitWalk /\ [][NextWalk]_vars

\* The run under a fair scheduler: a thread that can take a step is not
\* held back forever, and every remote call returns or fails (each is one
\* step).
FairFlags == {NoFlags, [NoFlags EXCEPT !.readme_only = TRUE]}

FairRemotes ==
    {BaseRemote,
     [BaseRemote EXCEPT !.badIssues = {1}, !.badPages = {1}, !.badDirs = {D_A}]}

InitFair == InitWith(FairFlags, FairRemotes)

SpecFair == InitFair /\ [][Next]_vars /\ WF_vars(Next)

\* The same command run again against the unchanged remote.
Rerun ==
    /\ mpc = "done"
    /\ Len(history) < MaxRuns - 1
    /\ history' = history \o output
    /\ mpc' = "token"
    /\ all_content' = <<>>
    /\ ignore_patterns' = <<>>
    /\ futures' = <<>>
    /\ jpc' = [j \in Jobs |-> "none"]
    /\ jres' = [j \in Jobs |-> <<>>]
    /\ merged' = <<>>
    /\ stack' = <<>>
    /\ fst' = [f \in AllFiles |-> "none"]
    /\ ist' = [i \in Issues |-> "none"]
    /\ iacc' = <<>>
    /\ wst' = [p \in Pages |-> "none"]
    /\ wacc' = <<>>
    /\ log' = {}
    /\ exit_code' = -1
    /\ output' = <<>>
    /\ UNCHANGED <<args, remote, probe>>

TwiceFlags ==
    {[NoFlags EXCEPT !.readme_only = TRUE],
     [NoFlags EXCEPT !.wiki_only = TRUE],
     [NoFlags EXCEPT !.no_wiki = TRUE]}

NextTwice == Next \/ Rerun

InitTwice == InitWith(TwiceFlags, Remotes)

SpecTwice == InitTwice /\ [][NextTwice]_vars

\* should_ignore called on its own, on every path and rule list within the
\* bounds.
SeqsUpTo(S, n) == UNION {[1..m -> S] : m \in 0..n}

ProbePaths == SeqsUpTo({"a", "b", ".gitignore"}, MaxPathLen)
ProbeRules == SeqsUpTo(SeqsUpTo({"a", "b"}, MaxRuleLen), MaxRules)

ApplyIgnore ==
    /\ ~probe.applied
    /\ probe' = [probe EXCEPT !.applied = TRUE,
                              !.result = should_ignore(probe.path, probe.rules)]
    /\ UNCHANGED <<args, remote, history, mainVars, jpc, jres, log, codeVars,
                   issueVars, wikiVars>>

NextIgnore == ApplyIgnore

InitIgnore ==
    /\ args = NoFlags
    /\ remote = BaseRemote
    /\ Fresh
    /\ probe \in [path : ProbePaths, rules : ProbeRules, applied : {FALSE}, result : {FALSE}]

SpecIgnore == InitIgnore /\ [][NextIgnore]_vars

\* ------------------------------------------------------ reading a document
Kind(b) == b.header[1]
IsFileBlock(b) == Kind(b) = "File: "
FileBlocks(t) == SelectSeq(t, IsFileBlock)
PathOf(b) == b.header[2]

\* d is a proper ancestor directory of p.
Under(d, p) == Len(d) < Len(p) /\ SubSeq(p, 1, Len(d)) = d

\* Position, in the listing of d, of the subdirectory that holds p; 0 when p is
\* a file of d itself.
SubdirAt(d, p) ==
    LET contents == Listing(remote.tree, d)
        hit == {k \in 1..Len(contents) :
                   contents[k].type = "dir" /\ Under(contents[k].path, p)}
    IN  IF hit = {} THEN 0 ELSE CHOOSE k \in hit : TRUE

InTree(d, p) == d = D_root \/ Under(d, p)

\* Subdirectory blocks in listing order, then the files of the level.
WalkOrdered(t) ==
    LET fb == FileBlocks(t)
    IN  \A d \in TreeDirs(remote.tree) : \A i, j \in 1..Len(fb) :
            (i < j /\ InTree(d, PathOf(fb[i])) /\ InTree(d, PathOf(fb[j]))) =>
                LET ki == SubdirAt(d, PathOf(fb[i]))
                    kj == SubdirAt(d, PathOf(fb[j]))
                IN  /\ ~(ki = 0 /\ kj # 0)
                    /\ ~(ki # 0 /\ kj # 0 /\ ki > kj)

\* C1: in every text extract_repo_content builds or returns, and in the
\* document, the blocks of an earlier-listed subdirectory come before those of
\* a later-listed one, and all subdirectory blocks come before the file blocks
\* of the level itself, whatever the order in which the workers finish.
C1_SubdirsBeforeFiles ==
    /\ \A k \in 1..Len(stack) : WalkOrdered(stack[k].all_content)
    /\ WalkOrdered(jres["code"])
    /\ WalkOrdered(all_content)
    /\ \A k \in 1..Len(output) : WalkOrdered(output[k])

HasFile(t, f) == \E k \in 1..Len(t) : IsFileBlock(t[k]) /\ PathOf(t[k]) = f

C1_Witness ==
    /\ remote.tree = "big"
    /\ mpc = "done"
    /\ jpc["code"] = "done"
    /\ \A f \in {F_a, F_s, F_b, F_x, F_y} : HasFile(output[1], f)

\* Files of directory d whose extraction fails (fetch or decode error).
FailingIn(d) ==
    {f \in FilesIn(remote.tree, d) : f \in remote.badFiles \/ f \in remote.undecodable}

\* The other files of d are not ignored, not binary and decodable.
OthersSound(d) ==
    \A f \in FilesIn(remote.tree, d) \ FailingIn(d) :
        ~should_ignore(f, ignore_patterns) /\ f \notin remote.binary

LevelBlocks(t, d) ==
    SelectSeq(t, LAMBDA b : IsFileBlock(b) /\ PathOf(b) \in FilesIn(remote.tree, d))

OnePerSoundFile(t, d) ==
    /\ Len(LevelBlocks(t, d)) = Cardinality(FilesIn(remote.tree, d)) - 1
    /\ \A f \in FilesIn(remote.tree, d) \ FailingIn(d) :
           Cardinality({k \in 1..Len(t) : IsFileBlock(t[k]) /\ PathOf(t[k]) = f}) = 1

\* C3: when exactly one file of a directory level fails to fetch or decode and
\* its siblings are sound, the failure never makes the walk raise, the text the
\* walk returns holds one block per sibling (N-1 blocks for the level), the
\* emitted document holds them too, and the run is not stopped short of its
\* end.
C3_OneFileFails ==
    \A d \in TreeDirs(remote.tree) :
        (mpc \notin {"token", "repo", "gitignore"}
            /\ Cardinality(FailingIn(d)) = 1 /\ OthersSound(d)) =>
            /\ (remote.badDirs = {} => jpc["code"] \notin {"unwinding", "raised"})
            /\ (jpc["code"] = "done" => OnePerSoundFile(jres["code"], d))
            /\ (mpc = "done" /\ jpc["code"] = "done" => OnePerSoundFile(output[1], d))
            /\ (mpc \notin {"done", "fatal"} => ENABLED NextWalk)

C3_Witness ==
    /\ mpc = "done"
    /\ remote.undecodable = {F_y}
    /\ Cardinality(FailingIn(D_root)) = 1
    /\ HasFile(output[1], F_x)
    /\ ~HasFile(output[1], F_y)
    /\ <<"Error extracting", F_y>> \in log

\* ---------------------------------------------------------------- sections
Category(b) ==
    CASE Kind(b) = "File: " -> "code"
      [] Kind(b) = "Issue: #" -> "issues"
      [] Kind(b) = "Wiki Page: " -> "wiki"
      [] Kind(b) = "README" -> "readme"
      [] Kind(b) = "File Structure" -> "tree"
      [] OTHER -> "title"

\* The categories of a document's blocks, runs of one category counted once.
SectionOrder(doc) ==
    LET Acc[k \in 0..Len(doc)] ==
            IF k = 0 THEN <<>>
            ELSE IF k > 1 /\ Category(doc[k - 1]) = Category(doc[k])
                 THEN Acc[k - 1]
                 ELSE Append(Acc[k - 1], Category(doc[k]))
    IN  Acc[Len(doc)]

HasTree(doc) == \E k \in 1..Len(doc) : Kind(doc[k]) = "File Structure"

AfterDispatch == mpc \in {"merge", "output", "done"}
AfterMerge == mpc \in {"output", "done"}

IssueBlock(i) == add_content(<<"Issue: #", i>>, <<i>> \o IssueComments(i))[1]
PageBlock(p) == add_content(<<"Wiki Page: ", p>>, <<p>>)[1]

\* C2: a worker that raises leaves the result of its round with the blocks of
\* every sibling that succeeded: the issues of an issues round, the pages of a
\* wiki round, the files of a directory level.
C2_WorkerFailureIsolated ==
    /\ (Finished("issues") /\ remote.issuesList) =>
           \A i \in Issues \ remote.badIssues : IssueBlock(i) \in Range(jres["issues"])
    /\ (Finished("wiki") /\ remote.wiki = "present") =>
           \A p \in Pages \ remote.badPages : PageBlock(p) \in Range(jres["wiki"])
    /\ (jpc["code"] = "done") =>
           \A f \in TreeFiles(remote.tree) :
               extract_file_content(remote, f, ignore_patterns).value # <<>>
                   => HasFile(jres["code"], f)

\* C4: a top-level job that raises adds no text, the loop over the jobs goes
\* on to its end, and the whole text of every job that returned is in the
\* document.
C4_JobFailureIsolated ==
    /\ (mpc = "fatal" /\ futures # <<>>) => AllMerged
    /\ \A j \in Range(merged) :
           /\ jpc[j] = "raised" => \A k \in 1..Len(all_content) : Category(all_content[k]) # j
           /\ jpc[j] = "done" => IsSubstring(jres[j], all_content)
    /\ AfterMerge => Range(merged) = Range(futures)

C4_Witness ==
    /\ mpc = "done"
    /\ jpc["issues"] = "raised"
    /\ jpc["code"] = "done" /\ jres["code"] # <<>>
    /\ jpc["wiki"] = "done" /\ jres["wiki"] # <<>>
    /\ merged[1] = "issues"
    /\ IsSubstring(jres["code"], output[1])
    /\ IsSubstring(jres["wiki"], output[1])

\* The sections the merged jobs contributed, in the order they were merged.
MergedSections ==
    LET Acc[k \in 0..Len(merged)] ==
            IF k = 0 THEN <<>>
            ELSE IF jpc[merged[k]] = "done" /\ jres[merged[k]] # <<>>
                 THEN Append(Acc[k - 1], merged[k])
                 ELSE Acc[k - 1]
    IN  Acc[Len(merged)]

\* c1's section stands before c2's in the document.
Before(doc, c1, c2) ==
    \E i, j \in 1..Len(doc) : i < j /\ Category(doc[i]) = c1 /\ Category(doc[j]) = c2

Present(doc) == {Category(doc[k]) : k \in 1..Len(doc)}

\* C5 as stated: two runs with the same flags against the same remote put
\* the top-level sections they both hold in the same relative order.
C5_FixedSectionOrder ==
    (history # <<>> /\ output # <<>>) =>
        \A c1, c2 \in Present(history[1]) \cap Present(output[1]) :
            Before(history[1], c1, c2) <=> Before(output[1], c1, c2)

\* C5 as amended: the title comes first and the file-tree block, when it is
\* rendered, last; between them the sections of the jobs stand in the order in
\* which the jobs finished and were merged.
C5_SectionsInCompletionOrder ==
    AfterMerge =>
        SectionOrder(all_content) =
            <<"title">> \o MergedSections
                \o (IF HasTree(all_content) THEN <<"tree">> ELSE <<>>)

C5_Witness ==
    /\ mpc = "done"
    /\ futures = <<"code", "issues">>
    /\ merged = <<"issues", "code">>
    /\ SectionOrder(output[1]) = <<"title", "issues", "code", "tree">>

\* C6: two runs with the same flags against the same remote, with the same
\* items failing, emit the same set of blocks.
C6_SameBlockSet ==
    (history # <<>> /\ output # <<>>) => Range(history[1]) = Range(output[1])

\* C7: the file tree is rendered exactly when the code job was dispatched.
C7_TreeIffCodeJob ==
    AfterMerge => (HasTree(all_content) <=> "code" \in Range(futures))

\* C8: the file-tree block is rendered only after every dispatched job has
\* finished and been merged, it is rendered once, and it stays the last block
\* of the document.
C8_TreeLast ==
    /\ HasTree(all_content) =>
           /\ AllMerged
           /\ \A j \in Range(futures) : Finished(j)
           /\ Len(merged) = Len(futures)
           /\ Kind(all_content[Len(all_content)]) = "File Structure"
           /\ Cardinality({k \in 1..Len(all_content) :
                              Kind(all_content[k]) = "File Structure"}) = 1
    /\ \A n \in 1..Len(output) :
           HasTree(output[n]) => Kind(output[n][Len(output[n])]) = "File Structure"

C8_Witness ==
    /\ mpc = "done"
    /\ Len(merged) = 3
    /\ HasTree(output[1])
    /\ Len(output[1]) > 4

Only(name) == [NoFlags EXCEPT ![name] = TRUE]

NotDispatched(js) == \A j \in js : jpc[j] = "none" /\ jres[j] = <<>>

\* C9: with exactly one of the four *-only flags set and no other flag, the job
\* of that category and no other job is dispatched.
C9_OnlyFlagExclusive ==
    AfterDispatch =>
        /\ args = Only("issues_only") =>
               futures = <<"issues">> /\ NotDispatched(Jobs \ {"issues"})
        /\ args = Only("wiki_only") =>
               futures = <<"wiki">> /\ NotDispatched(Jobs \ {"wiki"})
        /\ args = Only("code_only") =>
               futures = <<"code">> /\ NotDispatched(Jobs \ {"code"})
        /\ args = Only("readme_only") =>
               futures = <<"readme">> /\ NotDispatched(Jobs \ {"readme"})

C9_Witness ==
    /\ mpc = "done"
    /\ args = Only("code_only")
    /\ futures = <<"code">>
    /\ jpc["code"] = "done"

SomeOnly(a) == a.issues_only \/ a.wiki_only \/ a.code_only \/ a.readme_only

\* C10: with some *-only flag set, --no-issues and --no-wiki change nothing:
\* the jobs dispatched are those dispatched with the two flags cleared.
C10_NoFlagsIgnored ==
    (AfterDispatch /\ SomeOnly(args)) =>
        futures = Submitted([args EXCEPT !.no_issues = FALSE, !.no_wiki = FALSE])

\* A step that ends the run as fatal starts where a top-level precondition is
\* tested: the token, the repository, the file-tree listing, the output sink.
FatalTierStep ==
    mpc \in {"token", "repo", "output"}
        \/ (mpc = "merge" /\ AllMerged /\ RenderTree(args))

Terminated == mpc \in {"done", "fatal"}

\* C11: no failure of a file, an issue, a comment list, a wiki page, the
\* README, the wiki or the ignore file ends the run as fatal: only a step that
\* tests a top-level precondition does; short of its end the run can always go
\* on; Done has exit status 0 and one emitted document, which for
\* --readme-only without a README is the title line alone.
C11_AbsorbedNeverFatal ==
    /\ [][(mpc # "fatal" /\ mpc' = "fatal") => FatalTierStep]_vars
    /\ [](~Terminated => ENABLED Next)
    /\ [](mpc = "done" => exit_code = 0 /\ Len(output) = 1)
    /\ []((mpc = "done" /\ args = [NoFlags EXCEPT !.readme_only = TRUE]
              /\ ~remote.readme) => output = << <<Title>> >>)

C11_Witness ==
    /\ mpc = "done"
    /\ args = [NoFlags EXCEPT !.readme_only = TRUE]
    /\ ~remote.readme
    /\ <<"Error extracting README">> \in log
    /\ output = << <<Title>> >>
    /\ exit_code = 0

TokenMissing == <<"Please set the GITHUB_TOKEN environment variable">> \in log

\* Nothing has been done yet: no repository resolved, no ignore file read, no
\* job submitted, no worker started, nothing emitted.
NoWorkDone ==
    /\ all_content = <<>>
    /\ ignore_patterns = <<>>
    /\ futures = <<>>
    /\ merged = <<>>
    /\ \A j \in Jobs : jpc[j] = "none" /\ jres[j] = <<>>
    /\ stack = <<>>
    /\ \A f \in AllFiles : fst[f] = "none"
    /\ \A i \in Issues : ist[i] = "none"
    /\ \A p \in Pages : wst[p] = "none"
    /\ iacc = <<>> /\ wacc = <<>>
    /\ output = <<>>

\* C12: when the credential is absent the run is over with exit status 1
\* before anything else happened: no repository lookup, no job, no worker, no
\* document, and no further step.
C12_NoTokenNoWork ==
    TokenMissing =>
        /\ mpc = "fatal"
        /\ exit_code = 1
        /\ NoWorkDone
        /\ ~ENABLED Next

C12_Witness == TokenMissing /\ mpc = "fatal" /\ exit_code = 1

\* C13: the sink receives at most one document per run, and what it receives is
\* the complete document: every submitted job finished and merged, the tree
\* block present exactly when it is to be rendered. A run that ended fatally
\* has emitted nothing and has a non-zero exit status.
C13_EmitOnceComplete ==
    /\ Len(output) <= 1
    /\ output # <<>> =>
           /\ mpc = "done"
           /\ exit_code = 0
           /\ output[1] = all_content
           /\ output[1][1] = Title
           /\ futures = Submitted(args)
           /\ AllMerged
           /\ \A j \in Range(futures) : Finished(j)
           /\ HasTree(output[1]) <=> RenderTree(args)
    /\ mpc = "fatal" => (output = <<>> /\ exit_code # 0)

\* A run aborted after its jobs were merged: text has accumulated, none of it
\* was emitted.
C13_Witness ==
    /\ mpc = "fatal"
    /\ futures # <<>>
    /\ AllMerged
    /\ Len(all_content) > 1
    /\ output = <<>>
    /\ exit_code = 1

WikiDiagnostic == <<"Error extracting wiki">> \in log

\* The wiki job met a failure other than the missing capability: the fetch of
\* the page list failed, or the collector re-raised a page worker's exception.
WikiFetchFailed ==
    \/ remote.wiki = "error"
    \/ \E p \in Pages : wst[p] = "collected" /\ extract_single_wiki_page(remote, p).raised

\* C14: a repository without wiki capability gives an empty wiki text and no
\* diagnostic; every other failure of the wiki job, a page worker's included,
\* is logged, so a silent empty-handed return means the capability is absent.
C14_SilentOnlyWhenAbsent ==
    /\ (Finished("wiki") /\ remote.wiki = "absent") =>
           (jres["wiki"] = <<>> /\ jpc["wiki"] = "done" /\ ~WikiDiagnostic)
    /\ (Finished("wiki") /\ WikiFetchFailed) =>
           (jpc["wiki"] = "done" /\ WikiDiagnostic)

\* Every text in which file blocks accumulate or end up.
Accumulators ==
    {stack[k].all_content : k \in 1..Len(stack)}
        \cup {jres["code"], all_content}
        \cup Range(output) \cup Range(history)

\* rule occurs in path as a contiguous piece.
OccursIn(rule, path) ==
    \E i \in 1..(Len(path) + 1) : \E j \in 0..Len(path) : SubSeq(path, i, j) = rule

\* The bytes are text: no NUL among the first SampleSize, every byte valid.
IsText(bytes) ==
    /\ \A i \in 1..Len(bytes) : i <= SampleSize => bytes[i] # 0
    /\ \A i \in 1..Len(bytes) : bytes[i] \in 0..127

\* C15: every file block in any accumulator or emitted document is that of an
\* entry no rule of the rule set occurs in, that is not the ignore file, that
\* was fetched, and whose content is not binary and decodes in full; the block
\* carries that content.
C15_BlocksAreSoundText ==
    \A t \in Accumulators : \A k \in 1..Len(t) :
        IsFileBlock(t[k]) =>
            LET p == PathOf(t[k])
            IN  /\ p \in TreeFiles(remote.tree)
                /\ p # <<".gitignore">>
                /\ \A r \in Range(ignore_patterns) : ~OccursIn(r, p)
                /\ remote.gitignore => (~OccursIn(<<"t">>, p) /\ ~OccursIn(<<"zz">>, p))
                /\ p \notin remote.badFiles
                /\ p \notin remote.binary \cup remote.undecodable
                /\ IsText(RawContent(remote, p))
                /\ t[k].content = RawContent(remote, p)

\* A finished walk over the tree that holds an ignore file, a file a rule
\* names, a binary file and an undecodable one: the document has the sound
\* file and none of the others.
C15_Witness ==
    /\ mpc = "done"
    /\ remote.tree = "dot"
    /\ remote.binary = {F_x}
    /\ remote.undecodable = {F_a}
    /\ HasFile(output[1], F_y)
    /\ \A f \in {F_gi, F_t, F_x, F_a} : fst[f] = "collected" /\ ~HasFile(output[1], f)

\* C16: for every path and every rule list within the bounds, should_ignore
\* answers true exactly when some rule occurs in the path as a contiguous
\* piece or the path is the ignore-file name ".gitignore".
C16_IgnoreIffSubstringOrName ==
    probe.applied =>
        (probe.result <=>
            \/ \E r \in Range(probe.rules) : OccursIn(r, probe.path)
            \/ probe.path = <<".gitignore">>)

\* A path of full length ignored because of its second rule, which occurs in
\* it after the first position; the first rule does not occur in it.
C16_Witness ==
    /\ probe.applied
    /\ probe.result
    /\ Len(probe.path) = MaxPathLen
    /\ Len(probe.rules) = 2
    /\ probe.rules[2] # <<>>
    /\ ~OccursIn(probe.rules[1], probe.path)
    /\ OccursIn(probe.rules[2], probe.path)
    /\ SubSeq(probe.path, 1, Len(probe.rules[2])) # probe.rules[2]

\* How many times block b stands in text t.
CountIn(t, b) == Cardinality({k \in 1..Len(t) : t[k] = b})

\* The worker's result r (a text of at most one block) is in t exactly once,
\* or is empty and t has no block of its kind for the item.
OnceIn(t, r) == r # <<>> => CountIn(t, r[1]) = 1

FileRoundsExact ==
    jpc["code"] = "done" =>
        \A f \in TreeFiles(remote.tree) :
            LET r == extract_file_content(remote, f, ignore_patterns).value
            IN  /\ OnceIn(jres["code"], r)
                /\ r = <<>> => ~HasFile(jres["code"], f)

IssueRoundExact ==
    (Finished("issues") /\ remote.issuesList) =>
        \A i \in Issues :
            (ist[i] \in {"done", "collected"} /\ ~extract_single_issue(remote, i).raised)
                => OnceIn(jres["issues"], extract_single_issue(remote, i).value)

WikiRoundExact ==
    (Finished("wiki") /\ remote.wiki = "present") =>
        \A p \in Pages :
            (wst[p] \in {"done", "collected"} /\ ~extract_single_wiki_page(remote, p).raised)
                => OnceIn(jres["wiki"], extract_single_wiki_page(remote, p).value)

OuterRoundExact ==
    AfterMerge =>
        \A j \in Jobs : \A k \in 1..Len(jres[j]) :
            CountIn(all_content, jres[j][k]) = IF jpc[j] = "done" THEN 1 ELSE 0

\* C17: whatever the interleaving, the output of a round (the files of a
\* directory level, the issues, the wiki pages, the jobs of the run) holds the
\* non-empty result of each of its workers that completed exactly once, and
\* nothing for an empty result.
C17_EachResultExactlyOnce ==
    FileRoundsExact /\ IssueRoundExact /\ WikiRoundExact /\ OuterRoundExact

\* No worker of job j is waiting or running.
WorkersOver(j) ==
    CASE j = "code" -> stack = <<>> /\ \A f \in AllFiles : fst[f] \in {"none", "done", "collected"}
      [] j = "issues" -> \A i \in Issues : ist[i] \in {"none", "done", "collected"}
      [] j = "wiki" -> \A p \in Pages : wst[p] \in {"none", "done", "collected"}
      [] OTHER -> TRUE

\* C18: when the document is emitted every submitted job has finished, with a
\* result or a failure, and so has every worker submitted to an inner pool,
\* the siblings of a worker or listing whose failure ended its job included; a
\* job's own future is never done before its workers are.
C18_NothingLeftRunning ==
    /\ \A j \in Jobs : Finished(j) => WorkersOver(j)
    /\ (AfterMerge \/ output # <<>>) =>
           /\ futures = Submitted(args)
           /\ \A j \in Jobs : jpc[j] \in {"none", "done", "raised"}
           /\ \A j \in Range(futures) : Finished(j)
           /\ \A j \in Jobs : WorkersOver(j)

\* A document emitted after the issues job was ended by one worker's failure:
\* its sibling ran to its end although nobody collected it.
C18_Witness ==
    /\ mpc = "done"
    /\ output # <<>>
    /\ jpc["issues"] = "raised"
    /\ \E i \in Issues : ist[i] = "done" /\ ~extract_single_issue(remote, i).raised

\* File workers executing now: in directory d, and over the whole walk.
RunningIn(d) == {f \in TreeFiles(remote.tree) : fst[f] = "running" /\ DirOf(remote.tree, f) = d}
RunningFiles == {f \in AllFiles : fst[f] = "running"}

OpenLevels == {stack[k].path : k \in 1..Len(stack)}

\* C19 as stated: over all directory levels in flight, no more than MaxWorkers
\* file workers execute at the same time.
C19_TotalWithinCap == Cardinality(RunningFiles) <= MaxWorkers

\* C19 amended: the cap holds per directory level. Workers execute only in
\* levels whose call is still on the stack, so over the walk their number is
\* at most MaxWorkers times the number of open levels.
C19_PerLevelCap ==
    /\ \A d \in TreeDirs(remote.tree) : Cardinality(RunningIn(d)) <= MaxWorkers
    /\ \A f \in RunningFiles : f \in TreeFiles(remote.tree) /\ DirOf(remote.tree, f) \in OpenLevels
    /\ Cardinality(RunningFiles) <= MaxWorkers * Len(stack)

\* Workers of the root level and of a descendant level executing together,
\* more of them than one pool admits.
C19_Witness ==
    /\ Len(stack) >= 2
    /\ Cardinality(RunningFiles) > MaxWorkers
    /\ RunningIn(D_root) # {}
    /\ RunningIn(Top.path) # {}
    /\ Top.path # D_root

\* main's positions in program order; the fatal exit is apart.
PcRank(pc) ==
    CASE pc = "token" -> 0
      [] pc = "repo" -> 1
      [] pc = "gitignore" -> 2
      [] pc = "dispatch" -> 3
      [] pc = "merge" -> 4
      [] pc = "output" -> 5
      [] OTHER -> 6

\* C20: under a fair scheduler every run ends, emitted or aborted; main only
\* moves forward, one position at a time (before dispatch, dispatched and
\* merging, emitting, done), or to the fatal exit.
C20_Terminates ==
    /\ <>Terminated
    /\ [][mpc' # mpc =>
            (mpc # "fatal" /\ mpc # "done"
                /\ (mpc' = "fatal" \/ PcRank(mpc') = PcRank(mpc) + 1))]_vars

\* The outer pool full (three jobs executing) while the walk is in a
\* subdirectory whose pool was created inside the root's pool, the root's
\* workers not all over.
C20_Witness ==
    /\ Cardinality({j \in Jobs : Active(j)}) = OuterMaxWorkers
    /\ Len(stack) >= 2
    /\ \E f \in FilesIn(remote.tree, D_root) : fst[f] \in {"pending", "running"}
    /\ \E f \in FilesIn(remote.tree, Top.path) : fst[f] \in {"pending", "running"}

====
